---------------------------- MODULE Spec2Model ----------------------------
(***************************************************************************)
(* A model of drb/docker.py: the Docker command builder.  The builder      *)
(* accumulates shell-quoted configuration, renders one command string and  *)
(* runs it through a command shell, waiting for the subprocess.            *)
(*                                                                         *)
(* Text is modelled as a sequence of one-character strings, so that        *)
(* quoting, joining, stripping and the shell's word splitting are computed *)
(* character by character.                                                 *)
(***************************************************************************)
EXTENDS Integers, Sequences, FiniteSets

VARIABLES docker_exec, options, image, cmd_and_args,
          pc, call, fullcmd, proc, nspawned, result, raw

vars == <<docker_exec, options, image, cmd_and_args,
          pc, call, fullcmd, proc, nspawned, result, raw>>

builder == <<docker_exec, options, image, cmd_and_args>>

(***************************************************************************)
(* Bound of the model: the longest option list the builder accumulates.    *)
(***************************************************************************)
MaxOpts == 2

(***************************************************************************)
(* Python values: None and a present value.                                *)
(***************************************************************************)
None == [none |-> TRUE, v |-> <<>>]

Some(x) == [none |-> FALSE, v |-> x]

(***************************************************************************)
(* Characters.                                                             *)
(***************************************************************************)
safechars ==
    {"a", "b", "c", "d", "e", "f", "g", "h", "i", "j", "k", "l", "m", "n",
     "o", "p", "q", "r", "s", "t", "u", "v", "w", "x", "y", "z", "A", "B",
     "C", "D", "E", "F", "G", "H", "I", "J", "K", "L", "M", "N", "O", "P",
     "Q", "R", "S", "T", "U", "V", "W", "X", "Y", "Z", "0", "1", "2", "3",
     "4", "5", "6", "7", "8", "9", "@", "%", "_", "-", "+", "=", ":", ",",
     ".", "/"}

\* The bytes outside ASCII that a subprocess may write ("0xE9" stands for
\* the single byte 0xE9).
NonAscii == {"0xE9"}

Whitespace == {" ", "\t", "\n", "\r"}

IsAscii(s) == \A i \in 1..Len(s) : s[i] \notin NonAscii

(***************************************************************************)
(* pipes.quote: a string of safe characters is returned as it is, the      *)
(* empty string as '', anything else between single quotes with each       *)
(* single quote inside written as '"'"'.                                   *)
(***************************************************************************)
RECURSIVE replace_quotes(_)
replace_quotes(s) ==
    IF s = <<>> THEN <<>>
    ELSE (IF Head(s) = "'" THEN <<"'", "\"", "'", "\"", "'">> ELSE <<Head(s)>>)
         \o replace_quotes(Tail(s))

quote(file) ==
    IF \E i \in 1..Len(file) : file[i] \notin safechars
    THEN <<"'">> \o replace_quotes(file) \o <<"'">>
    ELSE IF file = <<>> THEN <<"'", "'">> ELSE file

(***************************************************************************)
(* " ".join(parts)                                                         *)
(***************************************************************************)
RECURSIVE join(_)
join(parts) ==
    IF parts = <<>> THEN <<>>
    ELSE IF Len(parts) = 1 THEN parts[1]
    ELSE parts[1] \o <<" ">> \o join(Tail(parts))

(***************************************************************************)
(* _ordered_unique: the items in order, each yielded the first time it is  *)
(* met; s is the set of the items already yielded.                         *)
(***************************************************************************)
RECURSIVE ordered_unique_from(_, _)
ordered_unique_from(input_iterable, s) ==
    IF input_iterable = <<>> THEN <<>>
    ELSE LET item == Head(input_iterable) IN
         IF item \notin s
         THEN <<item>> \o ordered_unique_from(Tail(input_iterable), s \cup {item})
         ELSE ordered_unique_from(Tail(input_iterable), s)

\* The items with no filtering.
keep_all(input_iterable) == input_iterable

ordered_unique(input_iterable) == ordered_unique_from(input_iterable, {})

(***************************************************************************)
(* str.strip(): leading and trailing whitespace removed.                   *)
(***************************************************************************)
RECURSIVE lstrip(_)
lstrip(s) ==
    IF s # <<>> /\ Head(s) \in Whitespace THEN lstrip(Tail(s)) ELSE s

RECURSIVE rstrip(_)
rstrip(s) ==
    IF s # <<>> /\ s[Len(s)] \in Whitespace
    THEN rstrip(SubSeq(s, 1, Len(s) - 1)) ELSE s

strip(s) == rstrip(lstrip(s))

(***************************************************************************)
(* os.path: isabs, and abspath = normpath(join(getcwd(), path)).           *)
(***************************************************************************)
getcwd == <<"/", "w">>

isabs(path) == path # <<>> /\ path[1] = "/"

\* path.split("/")
RECURSIVE split_slash(_, _)
split_slash(path, cur) ==
    IF path = <<>> THEN <<cur>>
    ELSE IF Head(path) = "/" THEN <<cur>> \o split_slash(Tail(path), <<>>)
    ELSE split_slash(Tail(path), Append(cur, Head(path)))

RECURSIVE norm_comps(_, _, _)
norm_comps(comps, new_comps, initial_slashes) ==
    IF comps = <<>> THEN new_comps
    ELSE LET comp == Head(comps)
             dotdot == <<".", ".">> IN
         IF comp = <<>> \/ comp = <<".">>
         THEN norm_comps(Tail(comps), new_comps, initial_slashes)
         ELSE IF comp # dotdot
                 \/ (initial_slashes = 0 /\ new_comps = <<>>)
                 \/ (new_comps # <<>> /\ new_comps[Len(new_comps)] = dotdot)
         THEN norm_comps(Tail(comps), Append(new_comps, comp), initial_slashes)
         ELSE IF new_comps # <<>>
         THEN norm_comps(Tail(comps), SubSeq(new_comps, 1, Len(new_comps) - 1),
                         initial_slashes)
         ELSE norm_comps(Tail(comps), new_comps, initial_slashes)

RECURSIVE join_slash(_)
join_slash(comps) ==
    IF comps = <<>> THEN <<>>
    ELSE IF Len(comps) = 1 THEN comps[1]
    ELSE comps[1] \o <<"/">> \o join_slash(Tail(comps))

normpath(path) ==
    IF path = <<>> THEN <<".">>
    ELSE LET initial_slashes ==
                 IF ~isabs(path) THEN 0
                 ELSE IF Len(path) >= 2 /\ path[2] = "/"
                         /\ ~(Len(path) >= 3 /\ path[3] = "/") THEN 2
                 ELSE 1
             body == join_slash(norm_comps(split_slash(path, <<>>), <<>>,
                                           initial_slashes))
             res == [i \in 1..initial_slashes |-> "/"] \o body
         IN  IF res = <<>> THEN <<".">> ELSE res

abspath(path) ==
    IF isabs(path) THEN normpath(path)
    ELSE normpath(getcwd \o <<"/">> \o path)

(***************************************************************************)
(* The host file system as os.access, os.path.isdir and os.path.isfile see *)
(* it: the entry of the absolute path, if any.                             *)
(***************************************************************************)
HostPaths == { <<"d">>, <<"/", "f">>, <<"/", "n">>, <<"/", "p">> }

stat(path) ==
    LET p == abspath(path) IN
    IF p = <<"/", "w", "/", "d">> THEN [kind |-> "dir", perms |-> {"R", "X"}]
    ELSE IF p = <<"/", "f">>      THEN [kind |-> "file", perms |-> {"R", "X"}]
    ELSE IF p = <<"/", "p">>      THEN [kind |-> "dir", perms |-> {}]
    ELSE [kind |-> "missing", perms |-> {}]

\* The entries of the host paths the callers pass.
host_fs == [path \in HostPaths |-> stat(path)]

fs_entry(path) == host_fs[path]

os_access(path, mode) ==
    fs_entry(path).kind # "missing" /\ mode \subseteq fs_entry(path).perms

isdir(path) == fs_entry(path).kind = "dir"

isfile(path) == fs_entry(path).kind = "file"

(***************************************************************************)
(* The values the callers pass.                                            *)
(***************************************************************************)
DockerExecs == { <<"/", "o", " ", "t", "/", "d", "k">> }

Images == { <<"a", "l", "p", "i", "n", "e">>, <<"a", ";", "b">> }

CmdAndArgs == { <<<<"e", "c", "h", "o">>, <<"h", "i">>>>,
                <<<<"s", "h">>, <<"-", "c">>, <<"x", " ", "'", "y", "'">>>> }

AddOptArgs == { <<<<"-", "-", "r", "m">>, <<"a", " ", "b">>>>,
                <<<<"'">>>>,
                <<>> }

\* A Python object: a string (str or unicode) or something else.
Str(s) == [isstr |-> TRUE, s |-> s]

NotStr == [isstr |-> FALSE, s |-> <<>>]

EnvKeys == { Str(<<"K">>), NotStr }

EnvValues == { Str(<<>>), Str(<<"a", " ", "b">>), NotStr }

GuestPaths == { <<"/", "g", " ", "g">>, <<"g">> }

ExitCodes == {0, 1, 2}

Outputs == { <<" ", "h", "i", "\n">>, <<"0xE9">> }

Errors == { <<>> }

(***************************************************************************)
(* What a call gives its caller: a value returned or an exception raised.  *)
(***************************************************************************)
NoResult ==
    [kind |-> "none", exc |-> "", msg |-> "", returncode |-> 0,
     cmd |-> <<>>, value |-> None]

Returned(value) ==
    [kind |-> "return", exc |-> "", msg |-> "", returncode |-> 0,
     cmd |-> <<>>, value |-> value]

Raised(exc, msg, returncode, cmd) ==
    [kind |-> "raise", exc |-> exc, msg |-> msg, returncode |-> returncode,
     cmd |-> cmd, value |-> None]

\* drb.dbc.precondition(condition, message), when the condition is false.
PreconditionFailed(message) == Raised("PreconditionFailed", message, 0, <<>>)

(***************************************************************************)
(* SpawnedProcessError(returncode, cmd, output, error): the constructor    *)
(* formats the message, a unicode template filled with cmd, returncode and *)
(* the captured byte strings, then turns it into a str.  A captured byte   *)
(* outside ASCII cannot be decoded into the template and a character       *)
(* outside ASCII cannot be encoded back; the constructor then raises the   *)
(* codec's error instead of completing.                                    *)
(***************************************************************************)
SpawnedProcessError_plain(returncode, cmd, output, error) ==
    Raised("SpawnedProcessError", "", returncode, cmd)

SpawnedProcessError(returncode, cmd, output, error) ==
    IF ~IsAscii(output.v) \/ ~IsAscii(error.v)
    THEN Raised("UnicodeDecodeError", "", 0, <<>>)
    ELSE IF ~IsAscii(cmd)
    THEN Raised("UnicodeEncodeError", "", 0, <<>>)
    ELSE Raised("SpawnedProcessError", "", returncode, cmd)

(***************************************************************************)
(* The subprocess of the call in progress.                                 *)
(***************************************************************************)
NoProc == [state |-> "none", returncode |-> 0, stdout |-> None, stderr |-> None]

NoCall == [op |-> "", ignore_errors |-> FALSE, fds |-> ""]

NoCmd == [kind |-> "none", v |-> <<>>]

\* Popen(fullcmd, shell=True, **fds)
Popen(fds) == [state |-> "running", returncode |-> 0, stdout |-> None, stderr |-> None]

\* A wait that returns while the subprocess still runs.
communicate_nowait == proc.state # "none"

\* process.communicate() returns once the subprocess has exited.
communicate_returns == proc.state = "exited"

\* process.poll(): the exit code, None while the subprocess runs.
poll == IF proc.state = "exited" THEN Some(proc.returncode) ELSE None

\* Python's truth of a return code: not None and not 0.
truthy(retcode) == ~retcode.none /\ retcode.v # 0

(***************************************************************************)
(* Rendering.                                                              *)
(***************************************************************************)
render_pull ==
    docker_exec \o <<" ", "p", "u", "l", "l", " ">> \o image.v

render_run ==
    docker_exec \o <<" ", "r", "u", "n", " ">> \o join(ordered_unique(options))
        \o <<" ">> \o image.v \o <<" ">> \o join(cmd_and_args.v)

(***************************************************************************)
(* What the command shell started by Popen(..., shell=True) makes of a     *)
(* command string: its words, and whether the string is one simple command *)
(* (ok) or holds a character the shell acts on outside quotes: an operator,*)
(* an expansion, a line break, an unclosed quote.  "0x60" stands for the   *)
(* backquote character.                                                    *)
(***************************************************************************)
\* One character read by the shell in state st: the quoting mode, the word
\* being read (cur, and whether there is one), the words read, and ok.
shell_step(st, c) ==
    CASE st.mode = "single" ->
           IF c = "'" THEN [st EXCEPT !.mode = "plain"]
           ELSE [st EXCEPT !.cur = Append(@, c)]
      [] st.mode = "double" ->
           IF c = "\"" THEN [st EXCEPT !.mode = "plain"]
           ELSE IF c \in {"$", "\\", "0x60"}
           THEN [st EXCEPT !.cur = Append(@, c), !.ok = FALSE]
           ELSE [st EXCEPT !.cur = Append(@, c)]
      [] OTHER ->
           IF c \in {" ", "\t"}
           THEN [st EXCEPT !.cur = <<>>, !.inword = FALSE,
                           !.words = IF st.inword THEN Append(@, st.cur) ELSE @]
           ELSE IF c = "'" THEN [st EXCEPT !.mode = "single", !.inword = TRUE]
           ELSE IF c = "\"" THEN [st EXCEPT !.mode = "double", !.inword = TRUE]
           ELSE IF c \in safechars
           THEN [st EXCEPT !.cur = Append(@, c), !.inword = TRUE]
           ELSE [st EXCEPT !.cur = Append(@, c), !.inword = TRUE, !.ok = FALSE]

\* The characters s[lo..hi] read one after the other from state st: the
\* left half first (its state is computed before the right half is read).
RECURSIVE shell_lex(_, _, _, _)
shell_lex(s, lo, hi, st) ==
    IF lo > hi THEN st
    ELSE IF lo = hi THEN shell_step(st, s[lo])
    ELSE LET mid == (lo + hi) \div 2
             left == shell_lex(s, lo, mid, st)
         IN  IF left.ok \in BOOLEAN THEN shell_lex(s, mid + 1, hi, left) ELSE left

shell_split(s) ==
    LET st == shell_lex(s, 1, Len(s),
                        [mode |-> "plain", cur |-> <<>>, inword |-> FALSE,
                         words |-> <<>>, ok |-> TRUE])
    IN  [words |-> IF st.inword THEN Append(st.words, st.cur) ELSE st.words,
         ok |-> st.ok /\ st.mode = "plain"]

(***************************************************************************)
(* Construction: Docker(docker_exec).                                      *)
(***************************************************************************)
Init ==
    /\ \E e \in DockerExecs :
          /\ docker_exec = quote(e)
          /\ raw = [exec |-> e, options |-> <<>>, image |-> None, caa |-> None]
    /\ options = <<>>
    /\ image = None
    /\ cmd_and_args = None
    /\ pc = "idle"
    /\ call = NoCall
    /\ fullcmd = NoCmd
    /\ proc = NoProc
    /\ nspawned = 0
    /\ result = NoResult

\* A configuration call that fails its precondition: nothing is stored.
fails(op, message) ==
    /\ pc' = "returned"
    /\ call' = [op |-> op, ignore_errors |-> FALSE, fds |-> ""]
    /\ result' = PreconditionFailed(message)
    /\ UNCHANGED <<docker_exec, options, image, cmd_and_args, fullcmd, proc,
                   nspawned, raw>>

\* A configuration call that appends opts (quoted) standing for the
\* arguments args; the call returns self.
appends(opts, args) ==
    /\ Len(options) + Len(opts) <= MaxOpts
    /\ options' = options \o opts
    /\ raw' = [raw EXCEPT !.options = @ \o args]
    /\ fullcmd' = NoCmd
    /\ UNCHANGED <<docker_exec, image, cmd_and_args, pc, call, proc, nspawned,
                   result>>

(***************************************************************************)
(* Configuration methods.                                                  *)
(***************************************************************************)
additional_options(opts) ==
    /\ pc = "idle"
    /\ appends([i \in 1..Len(opts) |-> quote(opts[i])], opts)

env_format(key, value) ==
    <<"-", "-", "e", "n", "v", "=">> \o quote(key) \o <<"=">> \o quote(value)

\* env without its two isinstance preconditions.
env_unchecked(key, value) ==
    /\ pc = "idle"
    /\ appends(<<env_format(key.s, value.s)>>,
               << <<"-", "-", "e", "n", "v", "=">> \o key.s \o <<"=">> \o value.s >>)

env(key, value) ==
    /\ pc = "idle"
    /\ IF ~key.isstr THEN fails("env", "key must be str or unicode")
       ELSE IF ~value.isstr THEN fails("env", "value must be str or unicode")
       ELSE appends(<<env_format(key.s, value.s)>>,
                    << <<"-", "-", "e", "n", "v", "=">> \o key.s \o <<"=">> \o value.s >>)

\* image storing the name as supplied.
image_unquoted(img) ==
    /\ pc = "idle"
    /\ image' = Some(img)
    /\ raw' = [raw EXCEPT !.image = Some(img)]
    /\ fullcmd' = NoCmd
    /\ UNCHANGED <<docker_exec, options, cmd_and_args, pc, call, proc,
                   nspawned, result>>

set_image(img) ==
    /\ pc = "idle"
    /\ image' = Some(quote(img))
    /\ raw' = [raw EXCEPT !.image = Some(img)]
    /\ fullcmd' = NoCmd
    /\ UNCHANGED <<docker_exec, options, cmd_and_args, pc, call, proc,
                   nspawned, result>>

set_cmd_and_args(caa) ==
    /\ pc = "idle"
    /\ cmd_and_args' = Some([i \in 1..Len(caa) |-> quote(caa[i])])
    /\ raw' = [raw EXCEPT !.caa = Some(caa)]
    /\ fullcmd' = NoCmd
    /\ UNCHANGED <<docker_exec, options, image, pc, call, proc, nspawned,
                   result>>

rm ==
    /\ pc = "idle"
    /\ appends(<< <<"-", "-", "r", "m">> >>, << <<"-", "-", "r", "m">> >>)

interactive_and_tty ==
    /\ pc = "idle"
    /\ appends(<< <<"-", "-", "i", "n", "t", "e", "r", "a", "c", "t", "i", "v", "e">>,
                  <<"-", "-", "t", "t", "y">> >>,
               << <<"-", "-", "i", "n", "t", "e", "r", "a", "c", "t", "i", "v", "e">>,
                  <<"-", "-", "t", "t", "y">> >>)

volume_format(host, guest, read_only) ==
    <<"-", "-", "v", "o", "l", "u", "m", "e", "=">> \o host \o <<":">> \o guest
        \o <<":", "z">> \o (IF read_only THEN <<",", "r", "o">> ELSE <<>>)

\* bindmount_dir without its three preconditions.
bindmount_dir_unchecked(host_dir, guest_dir, read_only) ==
    /\ pc = "idle"
    /\ appends(<<volume_format(quote(abspath(host_dir)), quote(guest_dir), read_only)>>,
               <<volume_format(abspath(host_dir), guest_dir, read_only)>>)

bindmount_dir(host_dir, guest_dir, read_only) ==
    /\ pc = "idle"
    /\ IF ~os_access(host_dir, {"R", "X"})
       THEN fails("bindmount_dir", "host_dir must be readable and executable")
       ELSE IF ~isdir(host_dir)
       THEN fails("bindmount_dir", "host_dir must be a directory")
       ELSE IF ~isabs(guest_dir)
       THEN fails("bindmount_dir", "guest_dir must be absolute")
       ELSE appends(<<volume_format(quote(abspath(host_dir)), quote(guest_dir), read_only)>>,
                    <<volume_format(abspath(host_dir), guest_dir, read_only)>>)

bindmount_file(host_file, guest_file, read_only) ==
    /\ pc = "idle"
    /\ IF ~os_access(host_file, {"R"})
       THEN fails("bindmount_file", "host_file must be readable and executable")
       ELSE IF ~isfile(host_file)
       THEN fails("bindmount_file", "host_file must be a file")
       ELSE IF ~isabs(guest_file)
       THEN fails("bindmount_file", "guest_file must be absolute")
       ELSE appends(<<volume_format(quote(abspath(host_file)), quote(guest_file), read_only)>>,
                    <<volume_format(abspath(host_file), guest_file, read_only)>>)

privileged ==
    /\ pc = "idle"
    /\ appends(<< <<"-", "-", "p", "r", "i", "v", "i", "l", "e", "g", "e", "d">> >>,
               << <<"-", "-", "p", "r", "i", "v", "i", "l", "e", "g", "e", "d">> >>)

tmpfs(guest_dir) ==
    /\ pc = "idle"
    /\ IF ~isabs(guest_dir) THEN fails("tmpfs", "guest_dir must be absolute")
       ELSE appends(<< <<"-", "-", "t", "m", "p", "f", "s", "=">> \o quote(guest_dir) >>,
                    << <<"-", "-", "t", "m", "p", "f", "s", "=">> \o guest_dir >>)

\* workdir without its precondition.
workdir_unchecked(guest_dir) ==
    /\ pc = "idle"
    /\ appends(<< <<"-", "-", "w", "o", "r", "k", "d", "i", "r", "=">> \o quote(guest_dir) >>,
               << <<"-", "-", "w", "o", "r", "k", "d", "i", "r", "=">> \o guest_dir >>)

workdir(guest_dir) ==
    /\ pc = "idle"
    /\ IF ~isabs(guest_dir) THEN fails("workdir", "guest_dir must be absolute")
       ELSE appends(<< <<"-", "-", "w", "o", "r", "k", "d", "i", "r", "=">> \o quote(guest_dir) >>,
                    << <<"-", "-", "w", "o", "r", "k", "d", "i", "r", "=">> \o guest_dir >>)

init ==
    /\ pc = "idle"
    /\ appends(<< <<"-", "-", "i", "n", "i", "t">> >>, << <<"-", "-", "i", "n", "i", "t">> >>)

(***************************************************************************)
(* Terminal methods.  Each runs up to Popen in one step, waits in          *)
(* communicate() while the subprocess runs, and finishes in a second step. *)
(***************************************************************************)
\* The part of a terminal call up to and including Popen, were the option
\* list consumed by the rendering.
spawn_consuming(op, ignore_errors, fds, kind, cmd) ==
    /\ pc' = "communicate"
    /\ call' = [op |-> op, ignore_errors |-> ignore_errors, fds |-> fds]
    /\ fullcmd' = [kind |-> kind, v |-> cmd]
    /\ proc' = Popen(fds)
    /\ nspawned' = nspawned + 1
    /\ options' = <<>>
    /\ UNCHANGED <<docker_exec, image, cmd_and_args, result, raw>>

\* The part of a terminal call up to and including Popen.
spawn(op, ignore_errors, fds, kind, cmd) ==
    /\ pc' = "communicate"
    /\ call' = [op |-> op, ignore_errors |-> ignore_errors, fds |-> fds]
    /\ fullcmd' = [kind |-> kind, v |-> cmd]
    /\ proc' = Popen(fds)
    /\ nspawned' = nspawned + 1
    /\ UNCHANGED <<docker_exec, options, image, cmd_and_args, result, raw>>

\* A terminal call that fails its precondition.
refuses(op, ignore_errors, fds, message) ==
    /\ pc' = "returned"
    /\ call' = [op |-> op, ignore_errors |-> ignore_errors, fds |-> fds]
    /\ result' = PreconditionFailed(message)
    /\ UNCHANGED <<docker_exec, options, image, cmd_and_args, fullcmd, proc,
                   nspawned, raw>>

do_pull(ignore_errors) ==
    /\ pc = "idle"
    /\ IF image.none THEN refuses("do_pull", ignore_errors, "pipe", "image must be set")
       ELSE spawn("do_pull", ignore_errors, "pipe", "pull", render_pull)

\* _run without its two preconditions.
run_call_unchecked(op, fds) ==
    /\ pc = "idle"
    /\ spawn(op, FALSE, fds, "run", render_run)

run_call(op, fds) ==
    /\ pc = "idle"
    /\ IF image.none THEN refuses(op, FALSE, fds, "image must be set")
       ELSE IF cmd_and_args.none THEN refuses(op, FALSE, fds, "cmd_and_args must be set")
       ELSE spawn(op, FALSE, fds, "run", render_run)

do_run == run_call("do_run", "pipe")

do_launch_interactively == run_call("do_launch_interactively", "inherit")

\* The subprocess exits; what it wrote is captured only through pipes.
ProcessExit ==
    /\ pc = "communicate"
    /\ proc.state = "running"
    /\ \E c \in ExitCodes, out \in Outputs, err \in Errors :
          proc' = [state |-> "exited", returncode |-> c,
                   stdout |-> IF call.fds = "pipe" THEN Some(out) ELSE None,
                   stderr |-> IF call.fds = "pipe" THEN Some(err) ELSE None]
    /\ UNCHANGED <<docker_exec, options, image, cmd_and_args, pc, call,
                   fullcmd, nspawned, result, raw>>

\* do_pull from communicate() to its end.
do_pull_wait ==
    /\ pc = "communicate"
    /\ call.op = "do_pull"
    /\ communicate_returns
    /\ LET output == proc.stdout
           error == proc.stderr
           retcode == poll
       IN  result' = IF truthy(retcode) /\ ~call.ignore_errors
                     THEN SpawnedProcessError(retcode.v, fullcmd.v, output, error)
                     ELSE Returned(Some(strip(output.v)))
    /\ pc' = "returned"
    /\ UNCHANGED <<docker_exec, options, image, cmd_and_args, call, fullcmd,
                   proc, nspawned, raw>>

\* _run from communicate() to its end, and its caller's use of the value.
run_wait ==
    /\ pc = "communicate"
    /\ call.op \in {"do_run", "do_launch_interactively"}
    /\ communicate_returns
    /\ LET output == proc.stdout
           error == proc.stderr
           retcode == poll
       IN  result' = IF truthy(retcode)
                     THEN SpawnedProcessError(retcode.v, fullcmd.v, output, error)
                     ELSE IF call.op = "do_run"
                     THEN Returned(Some(strip(output.v)))
                     ELSE Returned(None)
    /\ pc' = "returned"
    /\ UNCHANGED <<docker_exec, options, image, cmd_and_args, call, fullcmd,
                   proc, nspawned, raw>>

\* The caller receives the value or the exception; the call is over.
Return ==
    /\ pc = "returned"
    /\ pc' = "idle"
    /\ call' = NoCall
    /\ result' = NoResult
    /\ proc' = NoProc
    /\ nspawned' = 0
    /\ UNCHANGED <<docker_exec, options, image, cmd_and_args, fullcmd, raw>>

Next ==
    \/ \E opts \in AddOptArgs : additional_options(opts)
    \/ \E key \in EnvKeys, value \in EnvValues : env(key, value)
    \/ \E img \in Images : set_image(img)
    \/ \E caa \in CmdAndArgs : set_cmd_and_args(caa)
    \/ rm
    \/ interactive_and_tty
    \/ \E h \in HostPaths, g \in GuestPaths, ro \in BOOLEAN : bindmount_dir(h, g, ro)
    \/ \E h \in HostPaths, g \in GuestPaths, ro \in BOOLEAN : bindmount_file(h, g, ro)
    \/ privileged
    \/ \E g \in GuestPaths : tmpfs(g)
    \/ \E g \in GuestPaths : workdir(g)
    \/ init
    \/ \E ignore_errors \in BOOLEAN : do_pull(ignore_errors)
    \/ do_run
    \/ do_launch_interactively
    \/ ProcessExit
    \/ do_pull_wait
    \/ run_wait
    \/ Return

Spec == Init /\ [][Next]_vars

(***************************************************************************)
(* Helpers of the properties.                                              *)
(***************************************************************************)
TerminalOps == {"do_pull", "do_run", "do_launch_interactively"}

IsPrefix(s, t) == Len(s) <= Len(t) /\ SubSeq(t, 1, Len(s)) = s

\* The items of seq at the positions where an item appears for the first
\* time, in the order of those positions.
FirstOccurrences(seq) ==
    LET idx == {i \in DOMAIN seq : \A j \in 1..(i - 1) : seq[j] # seq[i]}
        rank(i) == Cardinality({k \in idx : k <= i})
    IN  [n \in 1..Cardinality(idx) |-> seq[CHOOSE i \in idx : rank(i) = n]]

HasDuplicate(seq) == \E i, j \in DOMAIN seq : i < j /\ seq[i] = seq[j]

OneWord(w) == [words |-> <<w>>, ok |-> TRUE]

HasUnsafe(s) == \E i \in DOMAIN s : s[i] \notin safechars

C3_PullOutcome ==
    (pc = "returned" /\ call.op = "do_pull" /\ proc.state = "exited") =>
        IF proc.returncode # 0 /\ ~call.ignore_errors
        THEN /\ result.kind = "raise"
             /\ result.exc = "SpawnedProcessError"
             /\ result.returncode = proc.returncode
        ELSE result = Returned(Some(strip(proc.stdout.v)))

(***************************************************************************)
(* C4: a finished run or interactive run raises SpawnedProcessError        *)
(* exactly when the subprocess exited with a non-zero code, the error      *)
(* carrying that code and the rendered command; on code 0 run returns the  *)
(* stripped stdout and the interactive run returns None.                   *)
(***************************************************************************)
C4_RunOutcome ==
    (pc = "returned" /\ call.op \in {"do_run", "do_launch_interactively"}
        /\ proc.state = "exited") =>
        IF proc.returncode # 0
        THEN result = Raised("SpawnedProcessError", "", proc.returncode, fullcmd.v)
        ELSE IF call.op = "do_run"
        THEN result = Returned(Some(strip(proc.stdout.v)))
        ELSE result = Returned(None)

(***************************************************************************)
(* C5: a terminal call made while a required field is unset fails with     *)
(* PreconditionFailed in that very step, renders nothing and starts no     *)
(* subprocess.                                                             *)
(***************************************************************************)
C5_PreconditionBeforeSpawn ==
    [][(pc = "idle" /\ call'.op \in TerminalOps
          /\ (image.none \/ (call'.op # "do_pull" /\ cmd_and_args.none)))
       => /\ pc' = "returned"
          /\ result'.kind = "raise"
          /\ result'.exc = "PreconditionFailed"
          /\ nspawned' = 0
          /\ proc' = NoProc
          /\ fullcmd' = fullcmd]_vars

C5_Witness ==
    /\ pc = "returned"
    /\ call.op = "do_run"
    /\ ~image.none
    /\ cmd_and_args.none
    /\ result.exc = "PreconditionFailed"
    /\ nspawned = 0

(***************************************************************************)
(* C6: a bind mount whose host path is missing, of the wrong type or not   *)
(* accessible fails with PreconditionFailed and leaves the option list,    *)
(* the image and the command as they were.                                 *)
(***************************************************************************)
BadHostDir(h) ==
    \/ fs_entry(h).kind # "dir"
    \/ ~({"R", "X"} \subseteq fs_entry(h).perms)

BadHostFile(h) ==
    \/ fs_entry(h).kind # "file"
    \/ "R" \notin fs_entry(h).perms

C6_BadHostPathNoEffect ==
    [][\A h \in HostPaths, g \in GuestPaths, ro \in BOOLEAN :
          /\ (bindmount_dir(h, g, ro) /\ BadHostDir(h)) =>
                /\ result'.kind = "raise"
                /\ result'.exc = "PreconditionFailed"
                /\ UNCHANGED <<options, image, cmd_and_args>>
          /\ (bindmount_file(h, g, ro) /\ BadHostFile(h)) =>
                /\ result'.kind = "raise"
                /\ result'.exc = "PreconditionFailed"
                /\ UNCHANGED <<options, image, cmd_and_args>>]_vars

C6_Witness ==
    /\ pc = "returned"
    /\ call.op = "bindmount_dir"
    /\ result.exc = "PreconditionFailed"
    /\ result.msg = "host_dir must be a directory"
    /\ options # <<>>
    /\ ~image.none

(***************************************************************************)
(* C7: workdir, tmpfs and the bind mounts fail with PreconditionFailed on  *)
(* a relative guest path, whatever the builder holds; on an absolute guest *)
(* path (and a valid host path) they append exactly one option.            *)
(***************************************************************************)
FailsWithPrecondition ==
    /\ result'.kind = "raise"
    /\ result'.exc = "PreconditionFailed"
    /\ options' = options

AppendsOne ==
    /\ Len(options') = Len(options) + 1
    /\ IsPrefix(options, options')
    /\ result' = NoResult
    /\ pc' = "idle"

C7_GuestPathAbsolute ==
    [][\A g \in GuestPaths :
          /\ workdir(g) => IF isabs(g) THEN AppendsOne ELSE FailsWithPrecondition
          /\ tmpfs(g) => IF isabs(g) THEN AppendsOne ELSE FailsWithPrecondition
          /\ \A h \in HostPaths, ro \in BOOLEAN :
                /\ bindmount_dir(h, g, ro) =>
                      IF isabs(g) /\ ~BadHostDir(h) THEN AppendsOne
                      ELSE FailsWithPrecondition
                /\ bindmount_file(h, g, ro) =>
                      IF isabs(g) /\ ~BadHostFile(h) THEN AppendsOne
                      ELSE FailsWithPrecondition]_vars

C7_Witness ==
    /\ pc = "returned"
    /\ call.op = "workdir"
    /\ result.exc = "PreconditionFailed"
    /\ result.msg = "guest_dir must be absolute"
    /\ options # <<>>

(***************************************************************************)
(* C8 as stated: env with a key or value that is not a string fails with   *)
(* InvalidArgument and appends nothing; otherwise it appends one option    *)
(* --env=KEY=VALUE.                                                        *)
(***************************************************************************)
EnvOption(key, value) ==
    <<"-", "-", "e", "n", "v", "=">> \o quote(key.s) \o <<"=">> \o quote(value.s)

C9_OneSubprocessWaited ==
    /\ pc = "communicate" =>
          /\ nspawned = 1
          /\ proc.state # "none"
          /\ result = NoResult
    /\ (pc = "returned" /\ call.op \in TerminalOps
           /\ result.exc # "PreconditionFailed") =>
          /\ nspawned = 1
          /\ proc.state = "exited"
          /\ result.exc = "SpawnedProcessError" =>
                result.returncode = proc.returncode
          /\ result.kind = "return" =>
                (proc.returncode = 0 \/ call.ignore_errors)

C9_Witness ==
    /\ pc = "returned"
    /\ call.op = "do_launch_interactively"
    /\ result.exc = "SpawnedProcessError"
    /\ proc.state = "exited"
    /\ nspawned = 1

(***************************************************************************)
(* C10: every step leaves the old option list a prefix of the new one; a   *)
(* step of a terminal call, succeeding or raising, leaves the executable,  *)
(* the options, the image and the command as they were; and a terminal     *)
(* call made after another of the same kind, with no configuration         *)
(* change in between, renders the same command string.                     *)
(***************************************************************************)
C10_TerminalFrame ==
    [][/\ IsPrefix(options, options')
       /\ (pc # "idle" \/ pc' # "idle") => UNCHANGED builder
       /\ (pc = "idle" /\ pc' = "communicate" /\ fullcmd.kind = fullcmd'.kind)
             => fullcmd'.v = fullcmd.v]_vars

C10_Witness ==
    /\ pc = "returned"
    /\ call.op = "do_run"
    /\ result.kind = "raise"
    /\ result.exc # "PreconditionFailed"
    /\ options # <<>>
    /\ fullcmd.kind = "run"

=============================================================================
